---- MODULE Spec2Model ----
(***************************************************************************)
(* A model of the quint CLI drivers (src/quint/src/cliCommands.ts):        *)
(* runSimulator, runTests, outputResult and mkRng, together with the       *)
(* evaluator, the random source and the trace recorder they drive.         *)
(* The evaluator, the random source and the trace recorder are not part of *)
(* cliCommands.ts; they are modelled after the design document (spec.md,   *)
(* sections 4.1 - 4.5).  Further specifications model the expansion of the *)
(* --out-itf template (SpecTemplate), compile and verifySpec (SpecVerify),  *)
(* and the auxiliary actions of module KSetBadValues of                     *)
(* KSetAgreementConsensus.qnt (SpecKSet).                                   *)
(***************************************************************************)
EXTENDS Integers, Sequences, FiniteSets, TLC

(***************************************************************************)
(* Bounds of the model.                                                    *)
(***************************************************************************)
MaxSamples == 3
MaxSteps == 5
MaxTraces == 2
MaxSeedLen == 1
MaxFresh == 5
MaxTemplateLen == 3
MaxIndex == 2
MaxConfigs == 2
MaxMsgs == 1
MaxCex == 2

(***************************************************************************)
(* Sequence helpers.                                                       *)
(***************************************************************************)
SeqsUpTo(S, n) == UNION { [1..k -> S] : k \in 0..n }

Last(s) == s[Len(s)]

SeqRemoveAt(s, i) == SubSeq(s, 1, i - 1) \o SubSeq(s, i + 1, Len(s))

(***************************************************************************)
(* The text of --seed and BigInt(seedText).                                *)
(* JavaScript's BigInt(string) accepts the empty string (0n), a decimal    *)
(* literal with an optional sign, and an unsigned 0x literal; anything     *)
(* else throws a SyntaxError.                                              *)
(***************************************************************************)
SeedChars == {"0", "7", "x", "-"}

DecDigits == {"0", "7"}

DigitVal(c) == IF c = "7" THEN 7 ELSE 0

AllIn(s, S) == \A i \in 1..Len(s) : s[i] \in S

RECURSIVE DigitsValue(_, _)
DigitsValue(s, base) ==
  IF s = <<>> THEN 0
  ELSE DigitsValue(SubSeq(s, 1, Len(s) - 1), base) * base + DigitVal(Last(s))

BigInt(s) ==
  IF s = <<>> THEN [ok |-> TRUE, val |-> 0]
  ELSE IF Len(s) > 2 /\ s[1] = "0" /\ s[2] = "x" /\ AllIn(SubSeq(s, 3, Len(s)), DecDigits)
       THEN [ok |-> TRUE, val |-> DigitsValue(SubSeq(s, 3, Len(s)), 16)]
  ELSE IF s[1] = "-" /\ Len(s) > 1 /\ AllIn(Tail(s), DecDigits)
       THEN [ok |-> TRUE, val |-> 0 - DigitsValue(Tail(s), 10)]
  ELSE IF AllIn(s, DecDigits)
       THEN [ok |-> TRUE, val |-> DigitsValue(s, 10)]
  ELSE [ok |-> FALSE, val |-> 0]

\* args.seed: undefined, or a text
SeedTexts == SeqsUpTo(SeedChars, MaxSeedLen)

SeedArgs == {[def |-> FALSE, txt |-> <<>>]} \cup {[def |-> TRUE, txt |-> t] : t \in SeedTexts}

(***************************************************************************)
(* The seeded random source (spec.md 4.2): a deterministic generator whose *)
(* whole state is one integer.  newRng(seed) starts from the seed,         *)
(* newRng() from a fresh, unpredictable seed.                              *)
(***************************************************************************)
RngMod == 2 ^ 4

FreshSeeds == 1..MaxFresh

newRng(seed) == seed % RngMod

\* the state after one draw
RngAdvance(s) == (5 * s + 3) % RngMod

\* nextInt(bound): the number drawn in state s
nextInt(s, bound) == (s \div 2) % bound

(***************************************************************************)
(* The modules under simulation.  An action is a sequence of conjuncts     *)
(* ("all of"); the step of a module is an "any of" over several actions.   *)
(*   asgnConst  v' = c                                                     *)
(*   asgnAdd    v' = src + c                                               *)
(*   asgnOneOf  v' = oneOf(0 .. n-1), one draw from the random source      *)
(*   guardLt    v < c                                                      *)
(*   guardGe    v >= c                                                     *)
(*   div0       1/0 == 0, a runtime error                                  *)
(***************************************************************************)
AsgnConst(v, c) == [op |-> "asgnConst", var |-> v, src |-> v, c |-> c]
AsgnAdd(v, src, c) == [op |-> "asgnAdd", var |-> v, src |-> src, c |-> c]
AsgnOneOf(v, n) == [op |-> "asgnOneOf", var |-> v, src |-> v, c |-> n]
GuardLt(v, c) == [op |-> "guardLt", var |-> v, src |-> v, c |-> c]
GuardGe(v, c) == [op |-> "guardGe", var |-> v, src |-> v, c |-> c]
Div0 == [op |-> "div0", var |-> "x", src |-> "x", c |-> 0]

\* init: x=0, step: x'=x+1 (scenarios 1 and 2 of spec.md section 8)
Counter ==
  [ init |-> << AsgnConst("x", 0) >>,
    step |-> << << AsgnAdd("x", "x", 1) >> >> ]

\* a module with random choice, disabled branches and a runtime error
Branchy ==
  [ init |-> << AsgnOneOf("x", 2), AsgnConst("y", 0) >>,
    step |-> << << AsgnAdd("x", "x", 1), GuardLt("x", 3), AsgnAdd("y", "y", 0) >>,
                << AsgnAdd("x", "x", 2), AsgnAdd("y", "y", 1), GuardLt("y", 1) >>,
                << AsgnAdd("y", "x", 1), GuardGe("x", 4), Div0, AsgnConst("x", 0) >> >> ]

\* a module whose init raises a runtime error
Broken ==
  [ init |-> << AsgnConst("x", 0), Div0 >>,
    step |-> << << AsgnAdd("x", "x", 1) >> >> ]

ModuleNames == {"Counter", "Branchy", "Broken"}

ModuleOf(name) ==
  CASE name = "Counter" -> Counter
    [] name = "Branchy" -> Branchy
    [] OTHER -> Broken

\* the context no variable of which is assigned yet
EmptyCtx == [v \in {} |-> 0]

(***************************************************************************)
(* The evaluator (spec.md 4.1).  An assignment proposes an update of the   *)
(* next context; the proposals are committed only when the whole action    *)
(* application succeeds.                                                   *)
(***************************************************************************)
\* the context after committing the proposed assignments
Commit(cx, pend) ==
  [v \in (DOMAIN cx) \cup (DOMAIN pend) |-> IF v \in DOMAIN pend THEN pend[v] ELSE cx[v]]

\* one conjunct: its boolean result (or error), the proposals and the random source after it
EvalConj(c, cx, pend, r) ==
  CASE c.op = "asgnConst" -> [res |-> "true", pend |-> (c.var :> c.c) @@ pend, rng |-> r]
    [] c.op = "asgnAdd" -> [res |-> "true", pend |-> (c.var :> (cx[c.src] + c.c)) @@ pend, rng |-> r]
    [] c.op = "asgnOneOf" ->
         [res |-> "true", pend |-> (c.var :> nextInt(r, c.c)) @@ pend, rng |-> RngAdvance(r)]
    [] c.op = "guardLt" -> [res |-> IF cx[c.var] < c.c THEN "true" ELSE "false", pend |-> pend, rng |-> r]
    [] c.op = "guardGe" -> [res |-> IF cx[c.var] >= c.c THEN "true" ELSE "false", pend |-> pend, rng |-> r]
    [] OTHER -> [res |-> "error", pend |-> pend, rng |-> r]

\* a failed application that leaves its proposals behind
FailedContext_Partial(cx, pend) == Commit(cx, pend)

\* the context an application leaves behind when the action did not hold
FailedContext(cx, pend) == cx

\* "all of": every conjunct must hold, short-circuiting on the first failure
RECURSIVE ApplyAllFrom(_, _, _, _, _)
ApplyAllFrom(conjs, i, cx, pend, r) ==
  IF i > Len(conjs)
  THEN [res |-> "true", next |-> Commit(cx, pend), rng |-> r]
  ELSE LET e == EvalConj(conjs[i], cx, pend, r)
       IN IF e.res = "true"
          THEN ApplyAllFrom(conjs, i + 1, cx, e.pend, e.rng)
          ELSE [res |-> e.res, next |-> FailedContext(cx, e.pend), rng |-> e.rng]

ApplyAll(conjs, cx, r) == ApplyAllFrom(conjs, 1, cx, EmptyCtx, r)

\* "any of": the branches are tried from a randomly drawn one; the first
\* enabled branch is taken; it fails if none is enabled
RECURSIVE ApplyAnyFrom(_, _, _, _, _)
ApplyAnyFrom(branches, first, tried, cx, r) ==
  IF tried = Len(branches)
  THEN [res |-> "false", next |-> cx, rng |-> r]
  ELSE LET i == ((first + tried) % Len(branches)) + 1
           a == ApplyAll(branches[i], cx, r)
       IN IF a.res = "false"
          THEN ApplyAnyFrom(branches, first, tried + 1, cx, a.rng)
          ELSE a

ApplyAny(branches, cx, r) ==
  ApplyAnyFrom(branches, nextInt(r, Len(branches)), 0, cx, RngAdvance(r))

\* the invariant of a run: x < bound
InvHolds(cx, bound) == cx["x"] < bound

(***************************************************************************)
(* The trace recorder (spec.md 4.3): it retains up to N traces.  A trace   *)
(* is the sequence of contexts of one attempt, the seed of the attempt and *)
(* its result.                                                             *)
(***************************************************************************)
Trace(states, seed, result) == [states |-> states, seed |-> seed, result |-> result]

FinalContext(t) == Last(t.states)

\* status priority: a violation is ranked above the other results
Priority(t) == IF t.result = "violation" THEN 1 ELSE 0

\* a recorder that never compares final contexts
IsDuplicate_Never(best, t) == FALSE

\* diversity: the final context of t is the final context of a retained trace
IsDuplicate(best, t) == \E i \in 1..Len(best) : FinalContext(best[i]) = FinalContext(t)

\* the retained trace that t replaces when the recorder is full (0: none)
Replaced(best, t) ==
  LET worse == {i \in 1..Len(best) : Priority(best[i]) < Priority(t)}
  IN IF worse = {} THEN 0 ELSE CHOOSE i \in worse : \A j \in worse : i <= j

\* a recorder that keeps every trace
consider_Unbounded(best, t, n) == Append(best, t)

\* consider(trace): the retained traces afterwards, in discovery order
consider(best, t, n) ==
  IF n > 1 /\ IsDuplicate(best, t) THEN best
  ELSE IF Len(best) < n THEN Append(best, t)
  ELSE IF Replaced(best, t) = 0 THEN best
  ELSE Append(SeqRemoveAt(best, Replaced(best, t)), t)

\* newTraceRecorder(verbosity, rng, tracesToRecord): nothing is retained yet
newTraceRecorder == <<>>

(***************************************************************************)
(* mkRng(seedText) (cliCommands.ts): a left with a message when the text   *)
(* is not a big integer, otherwise a random source.  fresh is the seed     *)
(* that newRng() without an argument picks.                                *)
(***************************************************************************)
\* the truthiness of a bigint value, as in `seed ? a : b`
Truthy(n) == n # 0

\* a malformed seed that is replaced by a fresh one instead of being rejected
mkRng_Unchecked(seedArg, fresh) ==
  IF seedArg.def /\ BigInt(seedArg.txt).ok /\ Truthy(BigInt(seedArg.txt).val)
  THEN [isLeft |-> FALSE, rng |-> newRng(BigInt(seedArg.txt).val), msg |-> ""]
  ELSE [isLeft |-> FALSE, rng |-> newRng(fresh), msg |-> ""]

mkRng(seedArg, fresh) ==
  IF seedArg.def /\ ~BigInt(seedArg.txt).ok
  THEN [isLeft |-> TRUE, rng |-> 0, msg |-> "--seed must be a big integer"]
  ELSE IF seedArg.def /\ Truthy(BigInt(seedArg.txt).val)
       THEN [isLeft |-> FALSE, rng |-> newRng(BigInt(seedArg.txt).val), msg |-> ""]
       ELSE [isLeft |-> FALSE, rng |-> newRng(fresh), msg |-> ""]

\* deriveVerbosity(args)
deriveVerbosity(a) == IF a.out THEN 0 ELSE a.verbosity

\* verbosity.hasResults(level)
hasResults(level) == level >= 1

\* verbosity.hasTestDetails(level)
hasTestDetails(level) == level >= 2

(***************************************************************************)
(* The state of one invocation of the CLI.                                 *)
(***************************************************************************)
VARIABLES
  args,         \* the command-line arguments and the module under simulation
  pc,           \* "start", "sampling", "simulated", "returned", "exited"
  rng,          \* the state of the random source
  runNo,        \* the number of attempts started
  phase,        \* "init": the next attempt is not started; "step": inside an attempt
  stepNo,       \* the number of step applications in the current attempt
  ctx,          \* the current context
  ctxBefore,    \* the context the last action application started from
  lastRes,      \* the result of the last action application
  trace,        \* the contexts of the current attempt
  runSeed,      \* the seed of the current attempt
  attempts,     \* the concluded attempts of this invocation
  bestTraces,   \* recorder.bestTraces
  evalResult,   \* the result of evaluator.simulate
  stage,        \* the stage returned by runSimulator or runTests
  onTraceCalls, \* the calls of options.onTrace: index and status
  output,       \* what outputResult printed, wrote and exited with
  runIdx,       \* 1: the first run, 2: an independent run on the same arguments
  firstRun,     \* what the first run retained and returned
  testNo,       \* runTests: the number of tests run so far
  results,      \* runTests: the results of the tests run so far
  repeatLines,  \* runTests: the 'Use --seed=... --match=... to repeat.' lines printed
  itfFiles,     \* the interchange documents written by onTrace
  itfLog        \* the documents for which 'ITF conversion failed' was logged

\* the state of one call of expandOutputTemplate or expandNamedOutputTemplate
VARIABLES
  tPc,          \* "off", "input", "expanded"
  tTemplate,    \* the template
  tName,        \* the name of the test
  tIndex,       \* the index of the trace
  tAuto,        \* options.autoAppend
  tResult       \* the file name that is returned

\* the state of module KSetBadValues (KSetAgreementConsensus.qnt) around one
\* application of one of its auxiliary actions
VARIABLES
  round, crashed, newlyCrashed, procState,
  correctProcsMessages, crashedProcsMessages,
  hidingConfigs,   \* the argument of the action
  kPc,             \* "off", "input", "crashed", "received"
  kPre             \* the state variables before the action

\* the state of one invocation of quint verify: compile, then verifySpec
VARIABLES
  vArgs,      \* the CLI arguments
  vPc,        \* "off", "typechecked", "compiled", "verified", "failed"
  vDefs,      \* the definitions compile has added to the main module
  vLoaded,    \* the Apalache configuration read from --apalache-config
  vConfig,    \* the configuration handed to the verifier
  vResult,    \* what the verifier has answered
  vStage,     \* the result verifySpec returns
  vFiles,     \* the files written
  vOutput     \* the lines printed

mainVars == <<args, pc, rng, runNo, phase, stepNo, ctx, ctxBefore, lastRes, trace, runSeed,
              attempts, bestTraces, evalResult, stage, onTraceCalls, output, runIdx, firstRun,
              testNo, results, repeatLines, itfFiles, itfLog>>

templateVars == <<tPc, tTemplate, tName, tIndex, tAuto, tResult>>

ksetVars == <<round, crashed, newlyCrashed, procState, correctProcsMessages,
              crashedProcsMessages, hidingConfigs, kPc, kPre>>

verifyVars == <<vArgs, vPc, vDefs, vLoaded, vConfig, vResult, vStage, vFiles, vOutput>>

\* what an invocation of quint run or quint test leaves alone
otherVars == <<templateVars, ksetVars, verifyVars>>

vars == <<mainVars, otherVars>>

NoStage == [isRight |-> FALSE, msg |-> "", status |-> "none", errors |-> 0,
            seedDef |-> FALSE, seed |-> 0, trace |-> <<>>,
            passed |-> <<>>, failed |-> <<>>, ignored |-> <<>>]

NoOutput == [exitCode |-> 0 - 1, jsonWritten |-> FALSE, jsonSeedDef |-> FALSE, jsonSeed |-> 0,
             seedPrinted |-> FALSE, printedSeed |-> 0]

NoResult == [kind |-> "none", value |-> FALSE]

NoFirstRun == [done |-> FALSE, bestTraces |-> <<>>, status |-> "none"]

FreshInvocation ==
  /\ pc = "start"
  /\ rng = 0
  /\ runNo = 0
  /\ phase = "init"
  /\ stepNo = 0
  /\ ctx = EmptyCtx
  /\ ctxBefore = EmptyCtx
  /\ lastRes = "none"
  /\ trace = <<>>
  /\ runSeed = 0
  /\ attempts = <<>>
  /\ bestTraces = newTraceRecorder
  /\ evalResult = NoResult
  /\ stage = NoStage
  /\ onTraceCalls = <<>>
  /\ output = NoOutput
  /\ testNo = 0
  /\ results = <<>>
  /\ repeatLines = <<>>
  /\ itfFiles = <<>>
  /\ itfLog = <<>>

ArgsOf(config, seed, out, outItf, verbosity, maxSamples, maxSteps, nTraces, invBound, mod, singleShot) ==
  [cmd |-> "run", config |-> config, seed |-> seed, out |-> out, outItf |-> outItf,
   verbosity |-> verbosity, maxSamples |-> maxSamples, maxSteps |-> maxSteps, nTraces |-> nTraces,
   invBound |-> invBound, module |-> mod, singleShot |-> singleShot,
   match |-> [def |-> FALSE, txt |-> <<>>], defs |-> <<>>]

TestArgsOf(config, seed, out, verbosity, maxSamples, match, defs) ==
  [cmd |-> "test", config |-> config, seed |-> seed, out |-> out, outItf |-> FALSE,
   verbosity |-> verbosity, maxSamples |-> maxSamples, maxSteps |-> 0, nTraces |-> 1,
   invBound |-> 0, module |-> "Counter", singleShot |-> TRUE,
   match |-> match, defs |-> defs]

(***************************************************************************)
(* runSimulator, first part: the configuration checks and mkRng.           *)
(***************************************************************************)
RunSimulatorStart ==
  /\ UNCHANGED otherVars
  /\ pc = "start"
  /\ args.cmd = "run"
  /\ \E fresh \in FreshSeeds :
       LET rngOrError == mkRng(args.seed, fresh)
       IN IF args.config = "noMain"
          THEN /\ stage' = [NoStage EXCEPT !.msg = "Argument error", !.errors = 1]
               /\ pc' = "returned"
               /\ rng' = rng
          ELSE IF rngOrError.isLeft
          THEN /\ stage' = [NoStage EXCEPT !.msg = rngOrError.msg]
               /\ pc' = "returned"
               /\ rng' = rng
          ELSE IF args.config = "badExpr"
          THEN /\ stage' = [NoStage EXCEPT !.msg = "Argument error", !.errors = 1]
               /\ pc' = "returned"
               /\ rng' = rngOrError.rng
          ELSE /\ stage' = stage
               /\ pc' = "sampling"
               /\ rng' = rngOrError.rng
  /\ UNCHANGED <<args, runNo, phase, stepNo, ctx, ctxBefore, lastRes, trace, runSeed, attempts,
                 bestTraces, evalResult, onTraceCalls, output, runIdx, firstRun, testNo, results, repeatLines, itfFiles, itfLog>>

(***************************************************************************)
(* evaluator.simulate (spec.md 4.4): the sampling loop.                    *)
(***************************************************************************)
Attempt(status, states, seed, steps, stepsOk) ==
  [status |-> status, states |-> states, seed |-> seed, steps |-> steps, stepsOk |-> stepsOk]

Right(b) == [kind |-> "right", value |-> b]

Left == [kind |-> "left", value |-> FALSE]

\* a driver that reports an exhausted budget as an error
SimulateResult_ExhaustedIsError(atts, singleShot) ==
  IF \E i \in 1..Len(atts) : atts[i].status = "violation" THEN Right(FALSE) ELSE Left

\* the result of simulate after the attempts atts
SimulateResult(atts, singleShot) ==
  IF singleShot /\ Last(atts).status = "error" THEN Left
  ELSE IF \E i \in 1..Len(atts) : atts[i].status = "violation" THEN Right(FALSE)
  ELSE IF \E i \in 1..Len(atts) : atts[i].status = "error" THEN Left
  ELSE Right(TRUE)

\* a driver that always stops at the first violation
StopSampling_FirstViolation(status, n, maxSamples, nTraces, singleShot) ==
  \/ n >= maxSamples
  \/ status = "violation"
  \/ status = "error" /\ singleShot

\* the sampling stops after an attempt that ended with status, the n-th one
StopSampling(status, n, maxSamples, nTraces, singleShot) ==
  \/ n >= maxSamples
  \/ status = "violation" /\ nTraces = 1
  \/ status = "error" /\ singleShot

\* line 1527, prev.args.nTraces ?? 1 (nTraces = 0 stands for an absent --n-traces)
numberOfTraces(a) == IF a.nTraces = 0 THEN 1 ELSE a.nTraces

\* an attempt is concluded: its trace goes to the recorder and the driver
\* decides whether to keep sampling
Conclude(att, n) ==
  /\ attempts' = Append(attempts, att)
  /\ bestTraces' = consider(bestTraces, Trace(att.states, att.seed, att.status), numberOfTraces(args))
  /\ phase' = "init"
  /\ IF StopSampling(att.status, n, args.maxSamples, numberOfTraces(args), args.singleShot)
     THEN /\ pc' = "simulated"
          /\ evalResult' = SimulateResult(Append(attempts, att), args.singleShot)
     ELSE /\ pc' = pc
          /\ evalResult' = evalResult

\* the status of the attempt after one more step application
StepStatus(res, next, invBound, steps, maxSteps) ==
  IF res = "error" THEN "error"
  ELSE IF res = "false" THEN "ok"
  ELSE IF ~InvHolds(next, invBound) THEN "violation"
  ELSE IF steps >= maxSteps THEN "ok"
  ELSE "running"

\* a driver that evaluates the invariant in the initial state
InitStatus_InvariantChecked(next, invBound, maxSteps) ==
  IF ~InvHolds(next, invBound) THEN "violation"
  ELSE IF maxSteps = 0 THEN "ok"
  ELSE "running"

\* the status of the attempt after a successful init: the invariant is
\* evaluated after the steps only
InitStatus(next, invBound, maxSteps) ==
  IF maxSteps = 0 THEN "ok" ELSE "running"

\* an attempt starts: the init action is applied against the empty context
SimulateInit ==
  /\ UNCHANGED otherVars
  /\ pc = "sampling"
  /\ phase = "init"
  /\ runNo < args.maxSamples
  /\ LET a == ApplyAll(ModuleOf(args.module).init, EmptyCtx, rng)
     IN /\ runNo' = runNo + 1
        /\ runSeed' = rng
        /\ rng' = a.rng
        /\ ctxBefore' = EmptyCtx
        /\ ctx' = a.next
        /\ lastRes' = a.res
        /\ stepNo' = 0
        /\ IF a.res # "true"
           THEN \* a failure of init is fatal for the whole invocation
                /\ trace' = <<>>
                /\ attempts' = Append(attempts, Attempt("error", <<>>, rng, 0, TRUE))
                /\ pc' = "simulated"
                /\ evalResult' = Left
                /\ UNCHANGED <<phase, bestTraces>>
           ELSE /\ trace' = <<a.next>>
                /\ IF InitStatus(a.next, args.invBound, args.maxSteps) # "running"
                   THEN Conclude(Attempt(InitStatus(a.next, args.invBound, args.maxSteps),
                                         <<a.next>>, rng, 0, TRUE), runNo + 1)
                   ELSE /\ phase' = "step"
                        /\ UNCHANGED <<pc, attempts, bestTraces, evalResult>>
  /\ UNCHANGED <<args, stage, onTraceCalls, output, runIdx, firstRun, testNo, results, repeatLines, itfFiles, itfLog>>

\* one application of the step action, followed by the invariant
SimulateStep ==
  /\ UNCHANGED otherVars
  /\ pc = "sampling"
  /\ phase = "step"
  /\ stepNo < args.maxSteps
  /\ LET a == ApplyAny(ModuleOf(args.module).step, ctx, rng)
         st == StepStatus(a.res, a.next, args.invBound, stepNo + 1, args.maxSteps)
         states == IF a.res = "true" THEN Append(trace, a.next) ELSE trace
     IN /\ rng' = a.rng
        /\ ctxBefore' = ctx
        /\ ctx' = a.next
        /\ lastRes' = a.res
        /\ stepNo' = stepNo + 1
        /\ trace' = states
        /\ IF st = "running"
           THEN UNCHANGED <<pc, phase, attempts, bestTraces, evalResult>>
           ELSE Conclude(Attempt(st, states, runSeed, stepNo + 1, a.res = "true"), runNo)
  /\ UNCHANGED <<args, runNo, runSeed, stage, onTraceCalls, output, runIdx, firstRun, testNo, results, repeatLines, itfFiles, itfLog>>

(***************************************************************************)
(* runSimulator, second part: the classification of the result, the seed,  *)
(* the onTrace calls and the stage that is returned.                       *)
(***************************************************************************)
\* a violation that is classified as 'ok'
OutcomeStatus_NoViolation(res) == IF res.kind = "right" THEN "ok" ELSE "error"

\* lines 1532-1534
OutcomeStatus(res) ==
  IF res.kind = "right"
  THEN (IF res.value THEN "ok" ELSE "violation")
  ELSE "error"

\* lines 1540-1555: onTrace is called for the retained traces whose result is not an error
RECURSIVE OnTraceCalls(_, _)
OnTraceCalls(best, i) ==
  IF i > Len(best) THEN <<>>
  ELSE IF best[i].result = "error" THEN OnTraceCalls(best, i + 1)
  ELSE <<[index |-> i - 1, status |-> best[i].result]>> \o OnTraceCalls(best, i + 1)

\* an 'error' stage that drops the error of the evaluator
SimulatorStage_NoErrors(status, best) ==
  [isRight |-> status = "ok",
   msg |-> CASE status = "error" -> "Runtime error"
             [] status = "violation" -> "Invariant violated"
             [] OTHER -> "",
   status |-> status,
   errors |-> 0,
   seedDef |-> Len(best) > 0,
   seed |-> IF Len(best) > 0 THEN best[1].seed ELSE 0,
   trace |-> IF Len(best) > 0 THEN best[1].states ELSE <<>>,
   passed |-> <<>>, failed |-> <<>>, ignored |-> <<>>]

\* lines 1557-1598
SimulatorStage(status, best) ==
  [isRight |-> status = "ok",
   msg |-> CASE status = "error" -> "Runtime error"
             [] status = "violation" -> "Invariant violated"
             [] OTHER -> "",
   status |-> status,
   errors |-> IF status = "error" THEN 1 ELSE 0,
   seedDef |-> Len(best) > 0,
   seed |-> IF Len(best) > 0 THEN best[1].seed ELSE 0,
   trace |-> IF Len(best) > 0 THEN best[1].states ELSE <<>>,
   passed |-> <<>>, failed |-> <<>>, ignored |-> <<>>]

\* an interchange document: the index and the status onTrace was called
\* with and, in runTests, the name of the test
ItfDoc(index, name, status) == [index |-> index, name |-> name, status |-> status]

RECURSIVE ItfDocs(_)
ItfDocs(calls) ==
  IF calls = <<>> THEN <<>>
  ELSE <<ItfDoc(Head(calls).index, <<>>, Head(calls).status)>> \o ItfDocs(Tail(calls))

\* the elements of s at the positions in keep, in order
RECURSIVE SelectAt(_, _, _)
SelectAt(s, keep, i) ==
  IF i > Len(s) THEN <<>>
  ELSE (IF i \in keep THEN <<s[i]>> ELSE <<>>) \o SelectAt(s, keep, i + 1)

\* a writer that gives up at the first conversion that fails
ItfWritten_StopAtFailure(docs, converted) ==
  SelectAt(docs, {k \in converted : \A j \in 1..k : j \in converted}, 1)

\* lines 1479-1491 and 1302-1313: onTrace writes the documents whose
\* conversion succeeded (converted: their positions in docs)
ItfWritten(docs, converted) == SelectAt(docs, converted, 1)

\* and it logs 'ITF conversion failed' for the others
ItfFailed(docs, converted) == SelectAt(docs, (1..Len(docs)) \ converted, 1)

RunSimulatorFinish ==
  /\ UNCHANGED otherVars
  /\ pc = "simulated"
  /\ stage' = SimulatorStage(OutcomeStatus(evalResult), bestTraces)
  /\ onTraceCalls' = OnTraceCalls(bestTraces, 1)
  /\ IF args.outItf
     THEN \E converted \in SUBSET (1..Len(OnTraceCalls(bestTraces, 1))) :
            /\ itfFiles' = ItfWritten(ItfDocs(OnTraceCalls(bestTraces, 1)), converted)
            /\ itfLog' = ItfFailed(ItfDocs(OnTraceCalls(bestTraces, 1)), converted)
     ELSE UNCHANGED <<itfFiles, itfLog>>
  /\ pc' = "returned"
  /\ UNCHANGED <<args, rng, runNo, phase, stepNo, ctx, ctxBefore, lastRes, trace, runSeed, attempts,
                 bestTraces, evalResult, output, runIdx, firstRun, testNo, results, repeatLines>>

(***************************************************************************)
(* runTests and evaluator.test (spec.md 4.5).                              *)
(***************************************************************************)
TestSuffix == <<"T", "e", "s", "t">>

EndsWith(name, suffix) ==
  /\ Len(name) >= Len(suffix)
  /\ SubSeq(name, Len(name) - Len(suffix) + 1, Len(name)) = suffix

\* a pattern without metacharacters matches the names that contain it
Contains(name, pat) ==
  \E i \in 0..(Len(name) - Len(pat)) : SubSeq(name, i + 1, i + Len(pat)) = pat

\* isMatchingTest(match, name)
isMatchingTest(match, name) ==
  IF match.def /\ match.txt # <<>>
  THEN Contains(name, match.txt)
  ELSE EndsWith(name, TestSuffix)

\* the definitions of a main module with tests
TestDef(id, name, kind, body) == [id |-> id, name |-> name, kind |-> kind, body |-> body]

PassTest == TestDef(1, <<"p">> \o TestSuffix, "def", "true")
FlakyTest == TestDef(2, <<"f">> \o TestSuffix, "def", "flaky")
DivTest == TestDef(3, <<"d">> \o TestSuffix, "def", "div0")
FalseRun == TestDef(4, <<"p", "f">>, "def", "false")
AConst == TestDef(5, <<"c">> \o TestSuffix, "const", "true")

TestModules ==
  { <<PassTest>>,
    <<PassTest, FlakyTest, AConst>>,
    <<FalseRun, DivTest, PassTest>>,
    <<FlakyTest, FalseRun, PassTest, DivTest>> }

MatchArgs == { [def |-> FALSE, txt |-> <<>>], [def |-> TRUE, txt |-> <<>>],
               [def |-> TRUE, txt |-> <<"p">>], [def |-> TRUE, txt |-> <<"f">>] }

\* lines 1327-1329: the definitions that are run
RECURSIVE FilterTests(_, _)
FilterTests(defs, match) ==
  IF defs = <<>> THEN <<>>
  ELSE IF Head(defs).kind = "def" /\ isMatchingTest(match, Head(defs).name)
       THEN <<Head(defs)>> \o FilterTests(Tail(defs), match)
       ELSE FilterTests(Tail(defs), match)

\* the state of a random stream after k - 1 draws
RECURSIVE StreamAt(_, _)
StreamAt(r, k) == IF k <= 1 THEN r ELSE StreamAt(RngAdvance(r), k - 1)

\* the number of samples drawn by the tests that were run
RECURSIVE Draws(_)
Draws(done) == IF done = <<>> THEN 0 ELSE Head(done).nsamples + Draws(Tail(done))

\* one generator shared by the tests: a test starts where the tests before it stopped
TestRoot_Shared(root, done) == StreamAt(root, 1 + Draws(done))

\* the random source a test is forked from, after the tests done: the root
\* source, which the tests before it do not advance
TestRoot(root, done) == root

\* the sub-stream of a test, forked from the root random source
Fork(root, id) == (root + 3 * id) % RngMod

\* one sample of a test body: "true", "false" or "error"
Sample(body, r) ==
  CASE body = "true" -> "true"
    [] body = "false" -> "false"
    [] body = "div0" -> "error"
    [] OTHER -> IF nextInt(r, 2) = 0 THEN "false" ELSE "true"

\* the body is applied up to maxSamples times; the first sample that
\* returns false or raises an error is the failing sample
RECURSIVE TestSamples(_, _, _, _, _)
TestSamples(def, r, n, maxSamples, seed) ==
  IF n >= maxSamples
  THEN [name |-> def.name, status |-> "passed", errors |-> 0, seed |-> seed, nsamples |-> n]
  ELSE LET res == Sample(def.body, r)
       IN IF res = "true"
          THEN TestSamples(def, RngAdvance(r), n + 1, maxSamples, r)
          ELSE [name |-> def.name, status |-> "failed",
                errors |-> IF res = "error" THEN 1 ELSE 0, seed |-> r, nsamples |-> n + 1]

\* a driver that passes a test after its first true sample
test_OneSample(def, maxSamples, root) == TestSamples(def, Fork(root, def.id), 0, 1, Fork(root, def.id))

test(def, maxSamples, root) == TestSamples(def, Fork(root, def.id), 0, maxSamples, Fork(root, def.id))

\* lines 1279-1293
RunTestsStart ==
  /\ UNCHANGED otherVars
  /\ pc = "start"
  /\ args.cmd = "test"
  /\ \E fresh \in FreshSeeds :
       LET rngOrError == mkRng(args.seed, fresh)
       IN IF args.config = "noMain"
          THEN /\ stage' = [NoStage EXCEPT !.msg = "Argument error", !.errors = 1]
               /\ pc' = "returned"
               /\ rng' = rng
          ELSE IF rngOrError.isLeft
          THEN /\ stage' = [NoStage EXCEPT !.msg = rngOrError.msg]
               /\ pc' = "returned"
               /\ rng' = rng
          ELSE /\ stage' = stage
               /\ pc' = "testing"
               /\ rng' = rngOrError.rng
  /\ UNCHANGED <<args, runNo, phase, stepNo, ctx, ctxBefore, lastRes, trace, runSeed, attempts,
                 bestTraces, evalResult, onTraceCalls, output, runIdx, firstRun, testNo, results, repeatLines, itfFiles, itfLog>>

\* lines 1331-1334: the next test definition is run
RunTest ==
  /\ UNCHANGED otherVars
  /\ pc = "testing"
  /\ testNo < Len(FilterTests(args.defs, args.match))
  /\ results' = Append(results, test(FilterTests(args.defs, args.match)[testNo + 1], args.maxSamples,
                                     TestRoot(rng, results)))
  /\ testNo' = testNo + 1
  /\ IF args.outItf
     THEN \E converted \in SUBSET {1} :
            LET def == FilterTests(args.defs, args.match)[testNo + 1]
                res == test(def, args.maxSamples, TestRoot(rng, results))
                docs == <<ItfDoc(testNo, def.name, res.status)>>
            IN /\ itfFiles' = itfFiles \o ItfWritten(docs, converted)
               /\ itfLog' = itfLog \o ItfFailed(docs, converted)
     ELSE UNCHANGED <<itfFiles, itfLog>>
  /\ UNCHANGED <<args, pc, rng, runNo, phase, stepNo, ctx, ctxBefore, lastRes, trace, runSeed, attempts,
                 bestTraces, evalResult, stage, onTraceCalls, output, runIdx, firstRun, repeatLines>>

RECURSIVE NamesWithStatus(_, _)
NamesWithStatus(res, status) ==
  IF res = <<>> THEN <<>>
  ELSE IF Head(res).status = status
       THEN <<Head(res).name>> \o NamesWithStatus(Tail(res), status)
       ELSE NamesWithStatus(Tail(res), status)

\* lines 1357-1361: one pair of a failed result and an error message for
\* every captured error of every failed result
RECURSIVE namedErrors(_)
namedErrors(res) ==
  IF res = <<>> THEN <<>>
  ELSE (IF Head(res).status = "failed"
        THEN [k \in 1..Head(res).errors |-> Head(res)]
        ELSE <<>>) \o namedErrors(Tail(res))

\* lines 1354-1356, 1377-1386 and 1431; the stage is built with errors: []
TestedStage(res) ==
  [NoStage EXCEPT !.isRight = NamesWithStatus(res, "failed") = <<>>,
                  !.errors = 0,
                  !.msg = IF NamesWithStatus(res, "failed") = <<>> THEN "" ELSE "Tests failed",
                  !.passed = NamesWithStatus(res, "passed"),
                  !.failed = NamesWithStatus(res, "failed"),
                  !.ignored = NamesWithStatus(res, "ignored")]

\* lines 1391-1424: when test details are shown, one block is printed for
\* every element of namedErrors and it ends with the line that names the
\* seed and the test
RepeatLines(res, level) ==
  IF hasTestDetails(level)
  THEN [k \in 1..Len(namedErrors(res)) |->
          [seed |-> namedErrors(res)[k].seed, name |-> namedErrors(res)[k].name]]
  ELSE <<>>

RunTestsFinish ==
  /\ UNCHANGED otherVars
  /\ pc = "testing"
  /\ testNo = Len(FilterTests(args.defs, args.match))
  /\ stage' = TestedStage(results)
  /\ repeatLines' = RepeatLines(results, deriveVerbosity(args))
  /\ pc' = "returned"
  /\ UNCHANGED <<args, rng, runNo, phase, stepNo, ctx, ctxBefore, lastRes, trace, runSeed, attempts,
                 bestTraces, evalResult, onTraceCalls, output, runIdx, firstRun, testNo, results,
                 itfFiles, itfLog>>

(***************************************************************************)
(* outputResult: what is written to --out, what is printed, the exit code. *)
(***************************************************************************)
\* the condition under which 'Use --seed=0x... to reproduce.' is printed
PrintsSeed(a, st) ==
  ~a.out /\ ~a.outItf /\ st.seedDef /\ Truthy(st.seed) /\ hasResults(deriveVerbosity(a))

\* an exit code that ignores the failure
ExitCode_Zero(st) == 0

ExitCode(st) == IF st.isRight THEN 0 ELSE 1

OutputResult ==
  /\ UNCHANGED otherVars
  /\ pc = "returned"
  /\ output' = [exitCode |-> ExitCode(stage),
                jsonWritten |-> args.out,
                jsonSeedDef |-> args.out /\ stage.seedDef,
                jsonSeed |-> IF args.out /\ stage.seedDef THEN stage.seed ELSE 0,
                seedPrinted |-> PrintsSeed(args, stage),
                printedSeed |-> IF PrintsSeed(args, stage) THEN stage.seed ELSE 0]
  /\ pc' = "exited"
  /\ UNCHANGED <<args, rng, runNo, phase, stepNo, ctx, ctxBefore, lastRes, trace, runSeed, attempts,
                 bestTraces, evalResult, stage, onTraceCalls, runIdx, firstRun, testNo, results, repeatLines, itfFiles, itfLog>>

(***************************************************************************)
(* A second, independent invocation with the same arguments.               *)
(***************************************************************************)
Rerun ==
  /\ UNCHANGED otherVars
  /\ pc = "exited"
  /\ runIdx = 1
  /\ firstRun' = [done |-> TRUE, bestTraces |-> bestTraces, status |-> stage.status]
  /\ runIdx' = 2
  /\ pc' = "start"
  /\ rng' = 0
  /\ runNo' = 0
  /\ phase' = "init"
  /\ stepNo' = 0
  /\ ctx' = EmptyCtx
  /\ ctxBefore' = EmptyCtx
  /\ lastRes' = "none"
  /\ trace' = <<>>
  /\ runSeed' = 0
  /\ attempts' = <<>>
  /\ bestTraces' = newTraceRecorder
  /\ evalResult' = NoResult
  /\ stage' = NoStage
  /\ onTraceCalls' = <<>>
  /\ output' = NoOutput
  /\ testNo' = 0
  /\ results' = <<>>
  /\ repeatLines' = <<>>
  /\ itfFiles' = <<>>
  /\ itfLog' = <<>>
  /\ UNCHANGED args

(***************************************************************************)
(* The arguments of the invocations that are explored.                     *)
(***************************************************************************)
Configs == {"ok", "noMain", "badExpr"}

InvBounds == {0, 3, 100}

\* the command line is varied, the budgets are small
CliArgs ==
  { ArgsOf(c, s, o, oi, v, ms, 2, nt, 3, "Branchy", TRUE) :
      c \in Configs, s \in SeedArgs, o \in BOOLEAN, oi \in BOOLEAN, v \in 0..1,
      ms \in 1..MaxSamples, nt \in 0..MaxTraces }

\* the budgets and the module are varied, the command line is fixed
SimArgs ==
  { ArgsOf("ok", s, FALSE, FALSE, 1, ms, st, nt, ib, m, ss) :
      s \in {[def |-> FALSE, txt |-> <<>>], [def |-> TRUE, txt |-> <<"7">>]},
      ms \in 1..MaxSamples, st \in 0..MaxSteps, nt \in 0..MaxTraces,
      ib \in InvBounds, m \in ModuleNames, ss \in BOOLEAN }

\* quint run --out-itf on a module with runtime errors
ItfArgs ==
  { ArgsOf("ok", s, FALSE, TRUE, 1, ms, MaxSteps, nt, ib, "Branchy", ss) :
      s \in {[def |-> FALSE, txt |-> <<>>], [def |-> TRUE, txt |-> <<"7">>]},
      ms \in 1..MaxSamples, nt \in 0..MaxTraces, ib \in {3, 100}, ss \in BOOLEAN }

\* quint test --out-itf
TestItfArgs ==
  { [TestArgsOf("ok", [def |-> TRUE, txt |-> <<"7">>], FALSE, 1, ms, [def |-> FALSE, txt |-> <<>>], d)
       EXCEPT !.outItf = TRUE] :
      ms \in 1..MaxSamples, d \in TestModules }

\* quint test
TestArgs ==
  { TestArgsOf(c, s, o, v, ms, m, d) :
      c \in {"ok", "noMain"}, s \in SeedArgs, o \in BOOLEAN, v \in 0..2,
      ms \in 1..MaxSamples, m \in MatchArgs, d \in TestModules }

(***************************************************************************)
(* The state of module KSetBadValues (KSetAgreementConsensus.qnt).  The     *)
(* module is instantiated with N = 8 processes; the model has N processes   *)
(* for a small N.  A message has a sender and a set of values; the state of *)
(* a process is a record with the received value sets S and the decision y. *)
(***************************************************************************)
N == 2

Procs == 1..N

ValueSets == {{1}, {2}}

None == [tag |-> "None", value |-> 0]

Some(v) == [tag |-> "Some", value |-> v]

Messages == [sender : Procs, values : ValueSets]

HidingConfigs == [hiddenProcs : SUBSET Procs, targetProc : Procs]

SubsetsUpTo(S, n) == {T \in SUBSET S : Cardinality(T) <= n}

\* the process states of the model: every process has received nothing or
\* {1}; no process has decided, or process 1 has decided 1
ProcStates ==
  { [p \in Procs |-> [S |-> s, y |-> IF p = 1 THEN y ELSE None]] :
      s \in {{}, {{1}}}, y \in {None, Some(1)} }

\* flatten: the union of a set of sets
flatten(sets) == UNION sets

\* the state variables of the module
KState ==
  [round |-> round, crashed |-> crashed, newlyCrashed |-> newlyCrashed,
   procState |-> procState, correctProcsMessages |-> correctProcsMessages,
   crashedProcsMessages |-> crashedProcsMessages]

\* no action of KSetBadValues is modelled
KSetOff ==
  /\ round = 0
  /\ crashed = {}
  /\ newlyCrashed = {}
  /\ procState = <<>>
  /\ correctProcsMessages = {}
  /\ crashedProcsMessages = {}
  /\ hidingConfigs = {}
  /\ kPc = "off"
  /\ kPre = <<>>

\* an object without keys ({}), also the value of what is undefined
EmptyObject == <<>>

NoVerifyStage ==
  [isRight |-> FALSE, status |-> "none", msg |-> "", errors |-> 0,
   traceDef |-> FALSE, trace |-> <<>>]

\* quint verify is not invoked
VerifyOff ==
  /\ vArgs = EmptyObject
  /\ vPc = "off"
  /\ vDefs = EmptyObject
  /\ vLoaded = EmptyObject
  /\ vConfig = EmptyObject
  /\ vResult = EmptyObject
  /\ vStage = NoVerifyStage
  /\ vFiles = <<>>
  /\ vOutput = <<>>

\* no call of the template functions is modelled
TemplateOff ==
  /\ tPc = "off"
  /\ tTemplate = <<>>
  /\ tName = <<>>
  /\ tIndex = 0
  /\ tAuto = FALSE
  /\ tResult = <<>>

Init ==
  /\ args \in CliArgs \cup SimArgs \cup ItfArgs \cup TestArgs \cup TestItfArgs
  /\ runIdx = 1
  /\ firstRun = NoFirstRun
  /\ FreshInvocation
  /\ TemplateOff
  /\ KSetOff
  /\ VerifyOff

Next ==
  \/ RunSimulatorStart
  \/ SimulateInit
  \/ SimulateStep
  \/ RunSimulatorFinish
  \/ RunTestsStart
  \/ RunTest
  \/ RunTestsFinish
  \/ OutputResult
  \/ Rerun

Spec == Init /\ [][Next]_vars

(***************************************************************************)
(* expandOutputTemplate and expandNamedOutputTemplate (lines 1964-2019).   *)
(* A template is a sequence of characters; a placeholder is one element.   *)
(***************************************************************************)
\* PLACEHOLDERS
TestPlaceholder == "{test}"

SeqPlaceholder == "{seq}"

TemplateChars == {"o", ".", "/", SeqPlaceholder, TestPlaceholder}

Templates == SeqsUpTo(TemplateChars, MaxTemplateLen)

TestNames == { <<"t">>, <<"u">> }

DigitChars == <<"0", "1", "2", "3", "4", "5", "6", "7", "8", "9">>

\* index.toString()
RECURSIVE toString(_)
toString(n) ==
  IF n < 10 THEN <<DigitChars[n + 1]>>
  ELSE toString(n \div 10) \o <<DigitChars[(n % 10) + 1]>>

\* template.includes(placeholder)
includes(t, ph) == \E i \in 1..Len(t) : t[i] = ph

\* template.replaceAll(placeholder, by)
RECURSIVE replaceAll(_, _, _)
replaceAll(t, ph, by) ==
  IF t = <<>> THEN <<>>
  ELSE (IF Head(t) = ph THEN by ELSE <<Head(t)>>) \o replaceAll(Tail(t), ph, by)

\* the first position of c in t, Len(t) + 1 when there is none
indexOf(t, c) ==
  IF includes(t, c) THEN CHOOSE i \in 1..Len(t) : t[i] = c /\ \A j \in 1..(i - 1) : t[j] # c
  ELSE Len(t) + 1

\* template.split(sep)
RECURSIVE split(_, _)
split(t, sep) ==
  IF ~includes(t, sep) THEN <<t>>
  ELSE <<SubSeq(t, 1, indexOf(t, sep) - 1)>> \o split(SubSeq(t, indexOf(t, sep) + 1, Len(t)), sep)

\* parts.join(sep)
RECURSIVE join(_, _)
join(parts, sep) ==
  IF Len(parts) = 1 THEN parts[1]
  ELSE parts[1] \o <<sep>> \o join(Tail(parts), sep)

\* lines 2007-2019
expandOutputTemplate(template, index, autoAppend) ==
  IF includes(template, SeqPlaceholder)
  THEN replaceAll(template, SeqPlaceholder, toString(index))
  ELSE IF autoAppend
       THEN LET parts == split(template, ".")
            IN join([parts EXCEPT ![1] = parts[1] \o toString(index)], ".")
       ELSE template

\* lines 1985-1992
expandNamedOutputTemplate(template, name, index, autoAppend) ==
  expandOutputTemplate(replaceAll(template, TestPlaceholder, name), index, autoAppend)

\* no invocation of quint run or quint test is modelled
MainOff ==
  /\ args = ArgsOf("ok", [def |-> FALSE, txt |-> <<>>], FALSE, FALSE, 0, 1, 0, 0, 0, "Counter", FALSE)
  /\ runIdx = 1
  /\ firstRun = NoFirstRun
  /\ FreshInvocation

TemplateInit ==
  /\ MainOff
  /\ KSetOff
  /\ VerifyOff
  /\ tPc = "input"
  /\ tTemplate \in Templates
  /\ tName \in TestNames
  /\ tIndex \in 0..MaxIndex
  /\ tAuto \in BOOLEAN
  /\ tResult = <<>>

ExpandOutputTemplate ==
  /\ tPc = "input"
  /\ tResult' = expandOutputTemplate(tTemplate, tIndex, tAuto)
  /\ tPc' = "expanded"
  /\ UNCHANGED <<mainVars, ksetVars, verifyVars, tTemplate, tName, tIndex, tAuto>>

ExpandNamedOutputTemplate ==
  /\ tPc = "input"
  /\ tResult' = expandNamedOutputTemplate(tTemplate, tName, tIndex, tAuto)
  /\ tPc' = "named"
  /\ UNCHANGED <<mainVars, ksetVars, verifyVars, tTemplate, tName, tIndex, tAuto>>

TemplateNext ==
  \/ ExpandOutputTemplate
  \/ ExpandNamedOutputTemplate

SpecTemplate == TemplateInit /\ [][TemplateNext]_vars

(***************************************************************************)
(* The auxiliary actions of KSetBadValues, each applied once to a state of  *)
(* the module and a set of hiding configurations.                           *)
(***************************************************************************)
KSetInit ==
  /\ MainOff
  /\ TemplateOff
  /\ VerifyOff
  /\ kPc = "input"
  /\ hidingConfigs \in SubsetsUpTo(HidingConfigs, MaxConfigs)
  /\ round \in 1..2
  /\ crashed \in SUBSET Procs
  /\ newlyCrashed \in {{}, {N}}
  /\ procState \in ProcStates
  /\ correctProcsMessages \in SubsetsUpTo(Messages, MaxMsgs)
  /\ crashedProcsMessages \in SubsetsUpTo(Messages, MaxMsgs)
  /\ kPre = KState

\* a crashProcessesFromConfig without its guard
crashProcessesFromConfig_Unguarded ==
  /\ kPc = "input"
  /\ newlyCrashed' = flatten({config.hiddenProcs : config \in hidingConfigs})
  /\ UNCHANGED <<crashed, round, procState, correctProcsMessages, crashedProcsMessages>>
  /\ kPc' = "crashed"
  /\ kPre' = KState
  /\ UNCHANGED <<mainVars, templateVars, verifyVars, hidingConfigs>>

\* part_001 lines 56-68
crashProcessesFromConfig ==
  /\ kPc = "input"
  /\ LET nc == flatten({config.hiddenProcs : config \in hidingConfigs})
     IN /\ newlyCrashed' = nc
        /\ Cardinality(crashed \cap nc) = 0
        /\ crashed' = crashed
        /\ round' = round
        /\ procState' = procState
        /\ correctProcsMessages' = correctProcsMessages
        /\ crashedProcsMessages' = crashedProcsMessages
  /\ kPc' = "crashed"
  /\ kPre' = KState
  /\ UNCHANGED <<mainVars, templateVars, verifyVars, hidingConfigs>>

\* processedValues of a receiveMessagesWithHiding that hides the senders of
\* every configuration from every process
processedValues_HiddenFromAll(p) ==
  LET hidden == flatten({config.hiddenProcs : config \in hidingConfigs})
  IN {m.values : m \in correctProcsMessages}
       \cup {m.values : m \in {c \in crashedProcsMessages : ~(c.sender \in hidden)}}

\* part_001 lines 77-98: the value sets that process p receives
processedValues(p) ==
  LET newCorrectValues == {m.values : m \in correctProcsMessages}
      newCrashedProcsValues == {m.values : m \in crashedProcsMessages}
      configForThisProc == {config \in hidingConfigs : config.targetProc = p}
  IN IF Cardinality(configForThisProc) > 0
     THEN LET hiddenFromThis == flatten({config.hiddenProcs : config \in configForThisProc})
              allowedCrashedMessages ==
                {m.values : m \in {c \in crashedProcsMessages : ~(c.sender \in hiddenFromThis)}}
          IN newCorrectValues \cup allowedCrashedMessages
     ELSE newCorrectValues \cup newCrashedProcsValues

\* part_001 lines 70-102
receiveMessagesWithHiding ==
  /\ kPc = "input"
  /\ round' = round
  /\ correctProcsMessages' = {}
  /\ crashedProcsMessages' = {}
  /\ crashed' = crashed
  /\ newlyCrashed' = newlyCrashed
  /\ procState' = [p \in DOMAIN procState |-> [procState[p] EXCEPT !.S = processedValues(p)]]
  /\ kPc' = "received"
  /\ kPre' = KState
  /\ UNCHANGED <<mainVars, templateVars, verifyVars, hidingConfigs>>

KSetNext ==
  \/ crashProcessesFromConfig
  \/ receiveMessagesWithHiding

SpecKSet == KSetInit /\ [][KSetNext]_vars

(***************************************************************************)
(* quint verify: compile and verifySpec (cliCommands.ts).  A JSON object is *)
(* a function from its keys to its values; a value that is not an object is *)
(* a record of its type and its text.  The verifier is external: its answer *)
(* is an input.  Of the console output only the warning and the result      *)
(* lines are modelled.                                                      *)
(***************************************************************************)
Str(s) == [t |-> "string", v |-> <<s>>]

Arr(names) == [t |-> "array", v |-> names]

Num(n) == [t |-> "number", v |-> toString(n)]

Undefined == [t |-> "undefined", v |-> <<>>]

\* an option that is absent, or given with a text
NoText == [def |-> FALSE, txt |-> <<>>]

Text(t) == [def |-> TRUE, txt |-> t]

\* the truthiness of an option: given and not the empty string
TruthyText(o) == o.def /\ o.txt # <<>>

\* obj.key ?? {}
Field(obj, key) == IF key \in DOMAIN obj THEN obj[key] ELSE EmptyObject

\* { ...a, ...b }
Spread(a, b) == b @@ a

VerifyArgs ==
  [init : {<<"init">>}, step : {<<"step">>},
   invariant : {NoText, Text(<<>>), Text(<<"i">>)},
   temporal : {NoText, Text(<<>>), Text(<<"p">>)},
   outItf : {NoText, Text(<<"f">>), Text(<<SeqPlaceholder>>)},
   apalacheConfig : BOOLEAN,
   maxSteps : 1..2,
   randomTransitions : BOOLEAN,
   out : {FALSE},
   verbosity : 0..1]

\* the value of a key in a configuration file
Loaded == Str("loaded")

\* the configuration files: the empty object, a file with a key of its own
\* only, a file with a checker section without the keys of the CLI, and a
\* file that sets every key that verifySpec sets
LoadedConfigs ==
  { EmptyObject,
    "server" :> Loaded,
    "checker" :> ("no-deadlocks" :> Loaded @@ "tuning" :> ("search.smt.timeout" :> Loaded)),
    "input" :> ("source" :> Loaded @@ "kind" :> Loaded)
      @@ "checker" :> ("length" :> Loaded @@ "init" :> Loaded @@ "next" :> Loaded
                        @@ "inv" :> Loaded @@ "temporal-props" :> Loaded
                        @@ "no-deadlocks" :> Loaded
                        @@ "tuning" :> ("search.simulation" :> Loaded
                                          @@ "search.smt.timeout" :> Loaded)) }

\* lines 1616-1623: the definitions added to the main module, with their bodies
extraDefs(a) ==
  ("q::init" :> a.init @@ "q::step" :> a.step)
    @@ (IF TruthyText(a.invariant)
        THEN "q::inv" :> (<<"and(">> \o a.invariant.txt \o <<")">>)
        ELSE EmptyObject)
    @@ (IF TruthyText(a.temporal)
        THEN "q::temporalProps" :> (<<"and(">> \o a.temporal.txt \o <<")">>)
        ELSE EmptyObject)

\* the input of the verifier
Source == "type" :> Str("string") @@ "format" :> Str("qnt") @@ "content" :> Str("parsedSpec")

\* a checker section in which the keys of the configuration file win
CheckerConfig_LoadedWins(a, loadedConfig) ==
  Spread(
    "length" :> Num(a.maxSteps)
      @@ "init" :> Str("q::init")
      @@ "next" :> Str("q::step")
      @@ "inv" :> (IF TruthyText(a.invariant) THEN Arr(<<"q::inv">>) ELSE Undefined)
      @@ "temporal-props" :> (IF TruthyText(a.temporal) THEN Arr(<<"q::temporalProps">>) ELSE Undefined)
      @@ "tuning" :> Spread("search.simulation" :> Str(IF a.randomTransitions THEN "true" ELSE "false"),
                            Field(Field(loadedConfig, "checker"), "tuning")),
    Field(loadedConfig, "checker"))

\* lines 1748-1759: the checker section of the configuration
CheckerConfig(a, loadedConfig) ==
  Spread(
    Field(loadedConfig, "checker"),
    "length" :> Num(a.maxSteps)
      @@ "init" :> Str("q::init")
      @@ "next" :> Str("q::step")
      @@ "inv" :> (IF TruthyText(a.invariant) THEN Arr(<<"q::inv">>) ELSE Undefined)
      @@ "temporal-props" :> (IF TruthyText(a.temporal) THEN Arr(<<"q::temporalProps">>) ELSE Undefined)
      @@ "tuning" :> Spread(Field(Field(loadedConfig, "checker"), "tuning"),
                            "search.simulation" :> Str(IF a.randomTransitions THEN "true" ELSE "false")))

\* lines 1738-1760: the configuration handed to the verifier
ApalacheConfig(a, loadedConfig) ==
  Spread(
    loadedConfig,
    "input" :> Spread(Field(loadedConfig, "input"), "source" :> Source)
      @@ "checker" :> CheckerConfig(a, loadedConfig))

\* the counterexamples of a verifier error, in the interchange format
ItfTraces == UNION { [1..k -> {"cex1", "cex2"}] : k \in 1..MaxCex }

\* the answers of the verifier: no error, or an error with an explanation,
\* its error messages and, possibly, counterexamples
VerifierResults ==
  { [ok |-> TRUE, explanation |-> "", errors |-> 0, tracesDef |-> FALSE, traces |-> <<>>] }
    \cup { [ok |-> FALSE, explanation |-> "verifier error", errors |-> n,
            tracesDef |-> FALSE, traces |-> <<>>] : n \in 0..1 }
    \cup { [ok |-> FALSE, explanation |-> "verifier error", errors |-> n,
            tracesDef |-> TRUE, traces |-> ts] : n \in 0..1, ts \in ItfTraces }

\* ofItf(itf): the states of a trace in the interchange format
ofItf(itf) == [states |-> itf]

\* a verifySpec that reads every verifier error as a violation
VerifyStatus_AlwaysViolation(err) == "violation"

\* lines 1778-1779
VerifyStatus(err) == IF err.tracesDef THEN "violation" ELSE "failure"

\* lines 1765-1796: the result of verifySpec for an answer of the verifier
VerifiedStage(res) ==
  IF res.ok
  THEN [isRight |-> TRUE, status |-> "ok", msg |-> "", errors |-> 0,
        traceDef |-> FALSE, trace |-> <<>>]
  ELSE [isRight |-> FALSE, status |-> VerifyStatus(res), msg |-> res.explanation,
        errors |-> res.errors,
        traceDef |-> res.tracesDef,
        trace |-> IF res.tracesDef THEN ofItf(res.traces[1]) ELSE <<>>]

\* lines 1788-1790: the file written for an answer of the verifier
VerifyFiles(a, res) ==
  IF ~res.ok /\ res.tracesDef /\ TruthyText(a.outItf)
  THEN <<[name |-> a.outItf.txt, content |-> res.traces[1]]>>
  ELSE <<>>

\* lines 1713-1722
VerifyWarning(a) ==
  IF TruthyText(a.outItf)
     /\ (includes(a.outItf.txt, TestPlaceholder) \/ includes(a.outItf.txt, SeqPlaceholder))
  THEN <<"warning">> ELSE <<>>

\* lines 1768-1769, 1784-1786
VerifyResultLine(a, res) ==
  LET verbosityLevel == IF TruthyText(a.outItf) THEN 0 ELSE deriveVerbosity(a)
  IN IF ~hasResults(verbosityLevel) THEN <<>>
     ELSE IF res.ok THEN <<"ok">>
     ELSE IF res.tracesDef THEN <<VerifyStatus(res)>>
     ELSE <<>>

VerifyInit ==
  /\ MainOff
  /\ TemplateOff
  /\ KSetOff
  /\ vArgs \in VerifyArgs
  /\ vPc = "typechecked"
  /\ vDefs = EmptyObject
  /\ vLoaded = EmptyObject
  /\ vConfig = EmptyObject
  /\ vResult = EmptyObject
  /\ vStage = NoVerifyStage
  /\ vFiles = <<>>
  /\ vOutput = <<>>

\* lines 1605-1659: compile
Compile ==
  /\ vPc = "typechecked"
  /\ \E mainExists \in BOOLEAN, resolved \in BOOLEAN :
       IF ~mainExists
       THEN /\ vPc' = "failed"
            /\ vStage' = [NoVerifyStage EXCEPT !.msg = "module does not exist"]
            /\ UNCHANGED vDefs
       ELSE /\ vDefs' = extraDefs(vArgs)
            /\ IF ~resolved
               THEN /\ vPc' = "failed"
                    /\ vStage' = [NoVerifyStage EXCEPT !.msg = "name resolution failed", !.errors = 1]
               ELSE /\ vPc' = "compiled"
                    /\ UNCHANGED vStage
  /\ UNCHANGED <<vArgs, vLoaded, vConfig, vResult, vFiles, vOutput>>
  /\ UNCHANGED <<mainVars, templateVars, ksetVars>>

\* lines 1707-1799: verifySpec
VerifySpec ==
  /\ vPc = "compiled"
  /\ \E readable \in BOOLEAN :
       IF vArgs.apalacheConfig /\ ~readable
       THEN /\ vPc' = "failed"
            /\ vStage' = [NoVerifyStage EXCEPT !.msg = "failed to read Apalache config"]
            /\ vOutput' = VerifyWarning(vArgs)
            /\ UNCHANGED <<vLoaded, vConfig, vResult, vFiles>>
       ELSE \E loadedConfig \in (IF vArgs.apalacheConfig THEN LoadedConfigs ELSE {EmptyObject}),
               res \in VerifierResults :
              /\ vLoaded' = loadedConfig
              /\ vConfig' = ApalacheConfig(vArgs, loadedConfig)
              /\ vResult' = res
              /\ vStage' = VerifiedStage(res)
              /\ vFiles' = VerifyFiles(vArgs, res)
              /\ vOutput' = VerifyWarning(vArgs) \o VerifyResultLine(vArgs, res)
              /\ vPc' = "verified"
  /\ UNCHANGED <<vArgs, vDefs>>
  /\ UNCHANGED <<mainVars, templateVars, ksetVars>>

VerifyNext ==
  \/ Compile
  \/ VerifySpec

SpecVerify == VerifyInit /\ [][VerifyNext]_vars

(***************************************************************************)
(* Properties.                                                             *)
(***************************************************************************)
Returned == pc \in {"returned", "exited"}

Simulated == args.cmd = "run" /\ evalResult.kind # "none"

Scenario(invBound) ==
  /\ args.cmd = "run"
  /\ args.config = "ok"
  /\ args.module = "Counter"
  /\ args.maxSteps = 5
  /\ args.maxSamples = 1
  /\ args.invBound = invBound

XTrace(n) == [k \in 1..n |-> [x |-> k - 1]]

\* the number of traces the invocation asks for, 1 when --n-traces is absent
RequestedTraces == IF args.nTraces = 0 THEN 1 ELSE args.nTraces

C2_ExitCode ==
  pc = "exited" =>
    /\ output.exitCode = (IF stage.isRight THEN 0 ELSE 1)
    /\ args.cmd = "run" =>
         /\ stage.isRight <=> stage.status = "ok"
         /\ output.exitCode = 0 <=>
              (attempts # <<>> /\ \A i \in 1..Len(attempts) : attempts[i].status = "ok")
    /\ args.cmd = "test" =>
         (output.exitCode = 0 <=>
            /\ args.config = "ok"
            /\ (args.seed.def => BigInt(args.seed.txt).ok)
            /\ \A i \in 1..Len(results) : results[i].status # "failed")

C2_Witness ==
  /\ pc = "exited"
  /\ output.exitCode = 1
  /\ stage.status = "violation"
  /\ \E i \in 1..Len(attempts) : attempts[i].status = "violation"

\* C3: the status in the stage returned by runSimulator is 'ok' for
\* Right(true), 'violation' for Right(false) and 'error' for Left(err); a
\* 'violation' stage has no error message and an 'error' stage has at least one.
C3_Classification ==
  (Returned /\ Simulated) =>
    /\ stage.status = (CASE evalResult = Right(TRUE) -> "ok"
                         [] evalResult = Right(FALSE) -> "violation"
                         [] OTHER -> "error")
    /\ stage.status = "violation" => stage.errors = 0
    /\ stage.status = "error" => stage.errors >= 1

C3_Witness ==
  /\ pc = "returned"
  /\ Simulated
  /\ evalResult = Left
  /\ stage.status = "error"
  /\ stage.errors = 1

SeedGiven == args.seed.def /\ BigInt(args.seed.txt).ok

\* C4: two independent runs of the simulator with the same --seed and the
\* same budgets retain the same traces and end with the same status.
C4_Determinism ==
  (runIdx = 2 /\ Returned /\ args.cmd = "run" /\ SeedGiven) =>
    /\ bestTraces = firstRun.bestTraces
    /\ stage.status = firstRun.status

\* C5: for every --seed text that parses as an integer s, 0 included, the
\* random source is created with the seed s; a text that does not parse
\* gives the error '--seed must be a big integer' and no random source.
C5_SeedUsed ==
  /\ (pc = "sampling" /\ runNo = 0 /\ SeedGiven) => rng = newRng(BigInt(args.seed.txt).val)
  /\ (Returned /\ args.config = "ok" /\ args.seed.def /\ ~BigInt(args.seed.txt).ok) =>
       /\ stage.msg = "--seed must be a big integer"
       /\ attempts = <<>>

\* C6: whenever runSimulator ends with 'violation' or 'error', the seed is
\* printed or is part of the --out JSON.
C6_SeedSurfaced ==
  (pc = "exited" /\ args.cmd = "run" /\ stage.status \in {"violation", "error"}) =>
    (output.seedPrinted \/ output.jsonSeedDef)

\* C7: the recorder never retains more than numberOfTraces traces.
C7_BoundedMemory == Len(bestTraces) <= RequestedTraces

C7_Witness ==
  /\ args.nTraces >= 1
  /\ Len(bestTraces) = args.nTraces
  /\ Len(attempts) > args.nTraces
  /\ \A i \in 1..Len(attempts) : attempts[i].states # <<>>

\* C8: when numberOfTraces > 1, any two retained traces differ in their final context.
C8_Diversity ==
  RequestedTraces > 1 =>
    \A i, j \in 1..Len(bestTraces) :
      i < j => FinalContext(bestTraces[i]) # FinalContext(bestTraces[j])

C8_Witness ==
  /\ args.nTraces > 1
  /\ Len(bestTraces) >= 2
  /\ \E i \in 1..Len(attempts) : \E j \in 1..Len(bestTraces) :
       /\ attempts[i].states # <<>>
       /\ Last(attempts[i].states) = FinalContext(bestTraces[j])
       /\ attempts[i].seed # bestTraces[j].seed

\* C9: after an action application that failed (a conjunct was false or
\* raised an error) the current context is the context before the application.
C9_AtomicCommit == lastRes \in {"false", "error"} => ctx = ctxBefore

C9_Witness ==
  /\ lastRes = "false"
  /\ args.module = "Branchy"
  /\ stepNo > 0
  /\ ctx = ctxBefore
  /\ ctx # EmptyCtx

SamplingDone == Simulated /\ pc # "sampling"

\* C10: when numberOfTraces > 1 the driver does not stop at a violating
\* attempt: unless an attempt raised an error, all maxSamples attempts are
\* run; the sampling stops early at a violation only when numberOfTraces = 1.
C10_SamplingPolicy ==
  SamplingDone =>
    /\ (RequestedTraces > 1 /\ \A i \in 1..Len(attempts) : attempts[i].status # "error") =>
         Len(attempts) = args.maxSamples
    /\ (Len(attempts) < args.maxSamples /\ Last(attempts).status = "violation") =>
         RequestedTraces = 1

C10_Witness ==
  /\ SamplingDone
  /\ args.nTraces > 1
  /\ args.maxSamples >= 2
  /\ Len(attempts) = args.maxSamples
  /\ attempts[1].status = "violation"

SampleAt(def, root, k) == Sample(def.body, StreamAt(Fork(root, def.id), k))

RunDefs == FilterTests(args.defs, args.match)

\* C13: a test body is evaluated at most maxSamples times; the first sample
\* that returns false or raises an error ends the test as 'failed' and no
\* later sample is run; the test is 'passed' iff all maxSamples samples
\* returned true; nsamples is between 1 and maxSamples.
C13_TestSamples ==
  \A i \in 1..Len(results) :
    LET r == results[i]
        d == RunDefs[i]
    IN /\ r.name = d.name
       /\ r.nsamples \in 1..args.maxSamples
       /\ r.status \in {"passed", "failed"}
       /\ r.status = "passed" <=>
            \A k \in 1..args.maxSamples : SampleAt(d, rng, k) = "true"
       /\ r.status = "passed" => r.nsamples = args.maxSamples
       /\ r.status = "failed" =>
            /\ SampleAt(d, rng, r.nsamples) \in {"false", "error"}
            /\ \A k \in 1..(r.nsamples - 1) : SampleAt(d, rng, k) = "true"

C13_Witness ==
  /\ args.maxSamples = 3
  /\ \E i, j \in 1..Len(results) :
       /\ results[i].status = "failed"
       /\ results[i].nsamples = 3
       /\ SampleAt(RunDefs[i], rng, 1) = "true"
       /\ SampleAt(RunDefs[i], rng, 3) = "false"
       /\ results[j].status = "failed"
       /\ results[j].nsamples = 1

InSeq(x, s) == \E i \in 1..Len(s) : s[i] = x

\* runTests ran the tests and returned their stage
Tested ==
  /\ args.cmd = "test"
  /\ Returned
  /\ args.config = "ok"
  /\ args.seed.def => BigInt(args.seed.txt).ok

\* the test definitions of the main module: the operator definitions that
\* are named as tests or selected by the filter
IsTestDef(d) ==
  /\ d.kind = "def"
  /\ EndsWith(d.name, TestSuffix) \/ isMatchingTest(args.match, d.name)

\* C14: every test definition of the main module gets exactly one status
\* among passed, failed and ignored; a definition whose name does not match
\* the filter is not executed and is in the 'ignored' list; the three lists
\* of the stage are pairwise disjoint and cover all results.
C14_OneStatusPerTest ==
  Tested =>
    /\ \A k \in 1..Len(args.defs) :
         LET d == args.defs[k]
         IN IsTestDef(d) =>
              /\ InSeq(d.name, stage.passed) \/ InSeq(d.name, stage.failed)
                   \/ InSeq(d.name, stage.ignored)
              /\ ~isMatchingTest(args.match, d.name) =>
                   /\ InSeq(d.name, stage.ignored)
                   /\ \A i \in 1..Len(results) : results[i].name # d.name
    /\ \A n \in {args.defs[k].name : k \in 1..Len(args.defs)} :
         /\ ~(InSeq(n, stage.passed) /\ InSeq(n, stage.failed))
         /\ ~(InSeq(n, stage.passed) /\ InSeq(n, stage.ignored))
         /\ ~(InSeq(n, stage.failed) /\ InSeq(n, stage.ignored))
    /\ Len(stage.passed) + Len(stage.failed) + Len(stage.ignored) = Len(results)

\* what running the test def alone (--match selecting only def) gives under
\* the root random source root
RunAlone(def, root) == test(def, args.maxSamples, TestRoot(root, <<>>))

C16_FailedCarryErrors ==
  /\ \A i \in 1..Len(results) :
       RunDefs[i].body = "div0" =>
         (results[i].status = "failed" /\ results[i].errors = 1 /\ results[i].nsamples = 1)
  /\ Tested => stage.errors = Len(namedErrors(results))

\* C17: when test details are shown, the line 'Use --seed=0x<seed>
\* --match=<name> to repeat.' is printed for every failed test, also for a
\* test that failed by returning false with no captured error, and with
\* that test's own seed.
C17_RepeatLinePerFailure ==
  (Tested /\ hasTestDetails(deriveVerbosity(args))) =>
    /\ \A i \in 1..Len(results) :
         results[i].status = "failed" =>
           InSeq([seed |-> results[i].seed, name |-> results[i].name], repeatLines)
    /\ \A k \in 1..Len(repeatLines) :
         \E i \in 1..Len(results) :
           /\ results[i].status = "failed"
           /\ results[i].name = repeatLines[k].name
           /\ results[i].seed = repeatLines[k].seed

MainMissing == args.config = "noMain"

SeedMalformed == args.seed.def /\ ~BigInt(args.seed.txt).ok

\* C18: if the main module is not found or --seed is malformed, runSimulator
\* and runTests return a failure before the evaluator is created: no init,
\* step or test body is evaluated, onTrace is never called (no trace file
\* is written) and the invocation reports the one error and fails.
C18_ConfigErrorsFirst ==
  (MainMissing \/ SeedMalformed) =>
    /\ pc \in {"start", "returned", "exited"}
    /\ runNo = 0
    /\ attempts = <<>>
    /\ trace = <<>>
    /\ bestTraces = <<>>
    /\ evalResult = NoResult
    /\ testNo = 0
    /\ results = <<>>
    /\ onTraceCalls = <<>>
    /\ repeatLines = <<>>
    /\ Returned =>
         /\ ~stage.isRight
         /\ stage.msg = (IF MainMissing THEN "Argument error" ELSE "--seed must be a big integer")
         /\ stage.errors = (IF MainMissing THEN 1 ELSE 0)
    /\ pc = "exited" => output.exitCode = 1

C18_Witness ==
  /\ pc = "exited"
  /\ args.cmd = "run"
  /\ args.outItf
  /\ ~MainMissing
  /\ SeedMalformed
  /\ stage.msg = "--seed must be a big integer"
  /\ output.exitCode = 1

\* C19: with --out-itf, onTrace is called exactly once for every trace the
\* recorder retained, whatever its status (ok, violation or error), in the
\* order of the retained traces and with the position as index.
C19_OneDocumentPerTrace ==
  (args.cmd = "run" /\ args.outItf /\ Returned /\ Simulated) =>
    /\ Len(onTraceCalls) = Len(bestTraces)
    /\ \A k \in 1..Len(onTraceCalls) :
         /\ onTraceCalls[k].index = k - 1
         /\ onTraceCalls[k].status = bestTraces[k].result

\* the attempts whose trace was handed to the recorder
Completed == {i \in 1..Len(attempts) : attempts[i].states # <<>>}

\* C20: the trace of every completed attempt is handed to onTrace as the
\* attempt completes: when the next attempt has started and when
\* runSimulator has returned, there are as many onTrace calls as completed
\* attempts.
C20_Streaming ==
  args.cmd = "run" =>
    /\ (pc = "sampling" /\ phase = "step") => Len(onTraceCalls) = Cardinality(Completed)
    /\ (Returned /\ Simulated) => Len(onTraceCalls) = Cardinality(Completed)

\* the documents in docs with the index i
WithIndex(docs, i) == {k \in 1..Len(docs) : docs[k].index = i}

\* C21: a failure to convert a trace to the interchange format is not
\* fatal: the stage that is returned is the one of a run all of whose
\* conversions succeed, the trace whose conversion failed is logged and not
\* written, and every other trace handed to onTrace is written.
C21_ConversionNotFatal ==
  /\ (args.cmd = "run" /\ Returned /\ Simulated) =>
       /\ stage = SimulatorStage(OutcomeStatus(evalResult), bestTraces)
       /\ args.outItf =>
            \A k \in 1..Len(onTraceCalls) :
              /\ Cardinality(WithIndex(itfFiles, onTraceCalls[k].index))
                   + Cardinality(WithIndex(itfLog, onTraceCalls[k].index)) = 1
              /\ \A j \in WithIndex(itfFiles, onTraceCalls[k].index) :
                   itfFiles[j].status = onTraceCalls[k].status
  /\ Tested =>
       /\ stage = TestedStage(results)
       /\ args.outItf =>
            \A i \in 1..Len(results) :
              Cardinality(WithIndex(itfFiles, i - 1)) + Cardinality(WithIndex(itfLog, i - 1)) = 1
  /\ ~args.outItf => (itfFiles = <<>> /\ itfLog = <<>>)

C21_Witness ==
  /\ pc = "returned"
  /\ args.cmd = "run"
  /\ args.outItf
  /\ Len(onTraceCalls) = 2
  /\ Len(itfLog) = 1
  /\ itfLog[1].index = 0
  /\ Len(itfFiles) = 1
  /\ itfFiles[1].index = 1
  /\ stage.status = "violation"

\* the last position of c in t, 0 when there is none
lastIndexOf(t, c) ==
  IF includes(t, c) THEN CHOOSE i \in 1..Len(t) : t[i] = c /\ \A j \in (i + 1)..Len(t) : t[j] # c
  ELSE 0

\* the index put before the extension of the file name of path: the file
\* name is what follows the last '/', its extension starts at its first '.'
BeforeExtension(path, index) ==
  LET dir == SubSeq(path, 1, lastIndexOf(path, "/"))
      file == SubSeq(path, lastIndexOf(path, "/") + 1, Len(path))
  IN dir \o SubSeq(file, 1, indexOf(file, ".") - 1) \o toString(index)
         \o SubSeq(file, indexOf(file, "."), Len(file))

Expanded(template, index, autoAppend) ==
  IF includes(template, SeqPlaceholder) THEN replaceAll(template, SeqPlaceholder, toString(index))
  ELSE IF autoAppend THEN BeforeExtension(template, index)
  ELSE template

\* C22: expandOutputTemplate replaces every {seq} by the index; without
\* {seq} and with autoAppend the index is put before the extension of the
\* file name, whatever directories the path has; without {seq} and without
\* autoAppend the template is returned as it is; expandNamedOutputTemplate
\* first replaces every {test} by the name of the test.
C22_Expansion ==
  /\ tPc = "expanded" => tResult = Expanded(tTemplate, tIndex, tAuto)
  /\ tPc = "named" =>
       tResult = Expanded(replaceAll(tTemplate, TestPlaceholder, tName), tIndex, tAuto)

\* C25: when runSimulator reports 'violation', the trace of the stage, taken
\* from recorder.bestTraces[0], is a trace whose own result is a violation
\* and the seed of the stage is the seed of that trace; when it reports
\* 'ok', no trace handed to onTrace has the status 'violation'.
C25_ReportedTrace ==
  (args.cmd = "run" /\ Returned /\ Simulated) =>
    /\ stage.status = "violation" =>
         /\ bestTraces # <<>>
         /\ bestTraces[1].result = "violation"
         /\ stage.trace = bestTraces[1].states
         /\ stage.seedDef
         /\ stage.seed = bestTraces[1].seed
    /\ stage.status = "ok" =>
         \A k \in 1..Len(onTraceCalls) : onTraceCalls[k].status # "violation"

\* C26: no trace file overwrites another within one invocation: in
\* runSimulator with nTraces > 1 (autoAppend) another index of a retained
\* trace is expanded to another file name, for every template; in runTests
\* another test (another name at another index) is written to another file
\* name, for every template and with or without autoAppend. A file is
\* written only for a template that is not the empty string (lines 1303, 1481).
C26_NoOverwrite ==
  /\ (tPc = "expanded" /\ tAuto /\ tTemplate # <<>>) =>
       \A j \in (0..MaxIndex) \ {tIndex} :
         expandOutputTemplate(tTemplate, j, TRUE) # tResult
  /\ (tPc = "named" /\ tTemplate # <<>>) =>
       \A n \in TestNames \ {tName} : \A j \in (0..MaxIndex) \ {tIndex} :
         expandNamedOutputTemplate(tTemplate, n, j, tAuto) # tResult

\* C27: crashProcessesFromConfig(hidingConfigs) fires only when no process of
\* the union of the configurations' hiddenProcs is in crashed; when it has
\* fired, newlyCrashed is exactly that union and crashed, round, procState,
\* correctProcsMessages and crashedProcsMessages are as before.
C27_CrashFromConfig ==
  kPc = "crashed" =>
    LET union == UNION {config.hiddenProcs : config \in hidingConfigs}
    IN /\ kPre.crashed \cap union = {}
       /\ newlyCrashed = union
       /\ crashed = kPre.crashed
       /\ round = kPre.round
       /\ procState = kPre.procState
       /\ correctProcsMessages = kPre.correctProcsMessages
       /\ crashedProcsMessages = kPre.crashedProcsMessages

\* crashProcessesFromConfig has fired with two configurations that hide
\* different processes, in a state where another set was newly crashed
C27_Witness ==
  /\ kPc = "crashed"
  /\ Cardinality(hidingConfigs) = 2
  /\ \A config \in hidingConfigs : newlyCrashed # config.hiddenProcs
  /\ newlyCrashed = Procs
  /\ kPre.newlyCrashed # newlyCrashed
  /\ kPre.correctProcsMessages # {}

\* the crashed-process messages that reach process p: those whose sender is
\* in the hiddenProcs of no configuration with targetProc = p
Reaching(p, msgs, configs) ==
  {m \in msgs : ~\E config \in configs : config.targetProc = p /\ m.sender \in config.hiddenProcs}

\* C28: receiveMessagesWithHiding(hidingConfigs) sets, for every process p,
\* procState[p].S to the value sets of all correct-process messages together
\* with the value sets of the crashed-process messages whose sender is not
\* hidden from p by any configuration with targetProc = p; it empties
\* correctProcsMessages and crashedProcsMessages, leaves round, crashed and
\* newlyCrashed as they were and changes no field of procState other than S.
C28_ReceiveWithHiding ==
  kPc = "received" =>
    /\ DOMAIN procState = DOMAIN kPre.procState
    /\ \A p \in DOMAIN procState :
         /\ procState[p].S =
              {m.values : m \in kPre.correctProcsMessages}
                \cup {m.values : m \in Reaching(p, kPre.crashedProcsMessages, hidingConfigs)}
         /\ procState[p] = [kPre.procState[p] EXCEPT !.S = procState[p].S]
    /\ correctProcsMessages = {}
    /\ crashedProcsMessages = {}
    /\ round = kPre.round
    /\ crashed = kPre.crashed
    /\ newlyCrashed = kPre.newlyCrashed

\* receiveMessagesWithHiding has fired: the message of a crashed process
\* was hidden from one process and received by another one that is the
\* target of no configuration, a process that had decided kept its
\* decision, and the value sets received before were replaced
C28_Witness ==
  /\ kPc = "received"
  /\ hidingConfigs # {}
  /\ \E p, q \in Procs :
       /\ \E config \in hidingConfigs : config.targetProc = p
       /\ \A config \in hidingConfigs : config.targetProc # q
       /\ \E m \in kPre.crashedProcsMessages :
            /\ ~(m.values \in procState[p].S)
            /\ m.values \in procState[q].S
       /\ procState[p].S # kPre.procState[p].S
  /\ \E p \in Procs : procState[p].y # None
  /\ kPre.correctProcsMessages # {}

\* the verifier has answered
Verified == vPc = "verified"

Referenced(config) ==
  LET ch == config["checker"]
  IN UNION { {ch[k].v[i] : i \in 1..Len(ch[k].v)} : k \in {"init", "next", "inv", "temporal-props"} }

\* C30: every definition name that verifySpec puts in the checker
\* configuration was added to the main module by compile for the same
\* arguments: q::init and q::step are always defined and referenced, q::inv
\* is referenced iff args.invariant is set iff compile defined it, and
\* q::temporalProps is referenced iff args.temporal is set iff compile
\* defined it; the values taken from the CLI arguments (length, init, next,
\* inv, temporal-props, search.simulation) override the same keys of a
\* loaded Apalache configuration.  An option is set when it is given and
\* not the empty string.
C30_ConfigMatchesCompile ==
  Verified =>
    LET ch == vConfig["checker"]
        names == Referenced(vConfig)
    IN /\ names \subseteq DOMAIN vDefs
       /\ {"q::init", "q::step"} \subseteq names
       /\ ("q::inv" \in names) <=> TruthyText(vArgs.invariant)
       /\ ("q::inv" \in DOMAIN vDefs) <=> TruthyText(vArgs.invariant)
       /\ ("q::temporalProps" \in names) <=> TruthyText(vArgs.temporal)
       /\ ("q::temporalProps" \in DOMAIN vDefs) <=> TruthyText(vArgs.temporal)
       /\ \A k \in {"length", "init", "next", "inv", "temporal-props"} :
            k \in DOMAIN ch /\ ch[k] # Loaded
       /\ ch["length"] = Num(vArgs.maxSteps)
       /\ "search.simulation" \in DOMAIN ch["tuning"]
       /\ ch["tuning"]["search.simulation"] # Loaded
       /\ ch["tuning"]["search.simulation"].v = <<"true">> <=> vArgs.randomTransitions

\* verifySpec has built the configuration from a file that sets every key
\* of the CLI, with --invariant given and --temporal not
C30_Witness ==
  /\ Verified
  /\ "checker" \in DOMAIN vLoaded
  /\ {"length", "init", "next", "inv", "temporal-props"} \subseteq DOMAIN vLoaded["checker"]
  /\ "search.simulation" \in DOMAIN vLoaded["checker"]["tuning"]
  /\ TruthyText(vArgs.invariant)
  /\ ~TruthyText(vArgs.temporal)
  /\ vConfig["checker"]["no-deadlocks"] = Loaded

====
